---- MODULE Spec2Model ----
EXTENDS Integers, Sequences, FiniteSets, TLC

\* Model of the Vue "auto insert .value" language-service plugin
\* (src/unnamed/part_000): isCharacterTyping, isBlacklistNode,
\* findPositionIdentifier and provideAutoInsertionEdit.

VARIABLES
    tyPrefix, tyText, tySuffix, tyResult, tyDone,
    exTree, exPos, exAllow, exResult, exDone,
    fdTree, fdOff, fdResult, fdDone,
    pIsTs, pEdit, pConfig, pProgram, pSourceFile, pTree, pOff, pToken, pHasValue,
    pc, cancelled, result, checks, cancelSeen, editChecked, analysisRan, quickInfoRan,
    typeQueried, runs

tyVars == <<tyPrefix, tyText, tySuffix, tyResult, tyDone>>
exVars == <<exTree, exPos, exAllow, exResult, exDone>>
fdVars == <<fdTree, fdOff, fdResult, fdDone>>
inputVars == <<pIsTs, pEdit, pConfig, pProgram, pSourceFile, pTree, pOff, pToken, pHasValue>>
pvVars == <<inputVars, pc, cancelled, result, checks, cancelSeen, editChecked,
            analysisRan, quickInfoRan, typeQueried, runs>>
vars == <<tyVars, exVars, fdVars, pvVars>>

----------------------------------------------------------------------------
\* Bounds

MaxTypingLen == 2
\* Calls of provideAutoInsertionEdit with the same inputs in one behaviour
MaxInvocations == 2

----------------------------------------------------------------------------
\* Text documents (vscode-languageserver-textdocument): a document is a
\* sequence of one-character strings.

Chars == {"o", "n", ".", "\n", "\r"}

WordChars ==
    {"a", "b", "c", "d", "e", "f", "g", "h", "i", "j", "k", "l", "m",
     "n", "o", "p", "q", "r", "s", "t", "u", "v", "w", "x", "y", "z",
     "A", "B", "C", "D", "E", "F", "G", "H", "I", "J", "K", "L", "M",
     "N", "O", "P", "Q", "R", "S", "T", "U", "V", "W", "X", "Y", "Z",
     "0", "1", "2", "3", "4", "5", "6", "7", "8", "9", "_"}

\* /\w/ on a one-character string ([A-Za-z0-9_])
IsWordChar(c) == c \in WordChars

\* /\w/.test(s) for a string of length 0 or 1
TestWord(s) == \E i \in 1..Len(s) : IsWordChar(s[i])

SeqsUpTo(S, n) == UNION {[1..k -> S] : k \in 0..n}

Min(a, b) == IF a < b THEN a ELSE b
Max(a, b) == IF a > b THEN a ELSE b

\* computeLineOffsets: a line starts after "\n", after "\r\n", and after a
\* "\r" that no "\n" follows
LineOffsets(doc) ==
    <<0>> \o SelectSeq([i \in 1..Len(doc) |->
                          IF \/ doc[i] = "\n"
                             \/ doc[i] = "\r" /\ (i = Len(doc) \/ doc[i + 1] # "\n")
                          THEN i ELSE -1],
                       LAMBDA o : o >= 0)

RECURSIVE EnsureBeforeEOL(_, _, _)
\* ensureBeforeEOL(offset, lineOffset): step back over line-break characters
EnsureBeforeEOL(doc, offset, lineOffset) ==
    IF offset > lineOffset /\ doc[offset] \in {"\n", "\r"}
    THEN EnsureBeforeEOL(doc, offset - 1, lineOffset)
    ELSE offset

\* offsetAt({line, character})
OffsetAt(doc, line, ch) ==
    LET lo == LineOffsets(doc)
    IN  IF line >= Len(lo) THEN Len(doc)
        ELSE IF line < 0 THEN 0
        ELSE LET lineOffset == lo[line + 1]
                 nextLineOffset == IF line + 1 < Len(lo) THEN lo[line + 2] ELSE Len(doc)
             IN  IF ch <= 0 THEN lineOffset
                 ELSE EnsureBeforeEOL(doc, Min(lineOffset + ch, nextLineOffset), lineOffset)

\* positionAt(offset): the line is the last line starting at or before
\* offset; the offset is moved before the line break (ensureBeforeEOL)
PositionAt(doc, offset) ==
    LET o == Max(Min(offset, Len(doc)), 0)
        lo == LineOffsets(doc)
        line == CHOOSE l \in 0..(Len(lo) - 1) :
                    lo[l + 1] <= o /\ (l + 1 = Len(lo) \/ lo[l + 2] > o)
    IN  [line |-> line,
         character |-> EnsureBeforeEOL(doc, o, lo[line + 1]) - lo[line + 1]]

\* getText(range): content.substring(offsetAt(start), offsetAt(end))
GetText(doc, sLine, sCh, eLine, eCh) ==
    LET s == OffsetAt(doc, sLine, sCh)
        e == OffsetAt(doc, eLine, eCh)
    IN  IF e < s THEN SubSeq(doc, e + 1, s)      \* substring swaps its arguments
        ELSE SubSeq(doc, s + 1, e)

Contains(s, c) == \E i \in 1..Len(s) : s[i] = c

\* Mutant: the caret taken at range.start, without the inserted length
IsCharacterTyping_NoLength(doc, startLine, startCh, text) ==
    LET position == [line |-> startLine, character |-> startCh]
        nextPos == PositionAt(doc, OffsetAt(doc, position.line, position.character) + 1)
        nextCharacter == GetText(doc, position.line, position.character,
                                 nextPos.line, nextPos.character)
    IN  IF Len(text) = 0 THEN FALSE
        ELSE IF Contains(text, "\n") THEN FALSE
        ELSE IsWordChar(text[Len(text)]) /\ ~TestWord(nextCharacter)

\* isCharacterTyping(document, options): the edit inserted `text` at
\* range.start (a line/character position of the document after the edit).
IsCharacterTyping(doc, startLine, startCh, text) ==
    LET position == [line |-> startLine, character |-> startCh + Len(text)]
        nextPos == PositionAt(doc, OffsetAt(doc, position.line, position.character) + 1)
        nextCharacter == GetText(doc, position.line, position.character,
                                 nextPos.line, nextPos.character)
    IN  IF Len(text) = 0 THEN FALSE                 \* delete text
        ELSE IF Contains(text, "\n") THEN FALSE      \* multi-line change
        ELSE IsWordChar(text[Len(text)]) /\ ~TestWord(nextCharacter)

----------------------------------------------------------------------------
\* Edit classification: the document after an edit that inserted tyText
\* between tyPrefix and tySuffix.

TyIdle ==
    /\ tyPrefix = <<>> /\ tyText = <<>> /\ tySuffix = <<>>
    /\ tyResult = FALSE /\ tyDone = FALSE

ExIdle ==
    /\ exTree = "none" /\ exPos = 0 /\ exAllow = FALSE
    /\ exResult = FALSE /\ exDone = FALSE

FdIdle ==
    /\ fdTree = "none" /\ fdOff = 0 /\ fdResult = "none" /\ fdDone = FALSE

PvIdle ==
    /\ pIsTs = FALSE /\ pEdit = "none" /\ pConfig = "unset"
    /\ pProgram = FALSE /\ pSourceFile = FALSE /\ pTree = "none" /\ pOff = 0
    /\ pToken = FALSE /\ pHasValue = FALSE
    /\ pc = "idle" /\ cancelled = FALSE /\ result = "none"
    /\ checks = 0 /\ cancelSeen = FALSE /\ editChecked = FALSE /\ analysisRan = FALSE
    /\ quickInfoRan = FALSE /\ typeQueried = FALSE /\ runs = <<>>

TypingDoc == tyPrefix \o tyText \o tySuffix

TypingInit ==
    /\ tyPrefix \in SeqsUpTo(Chars, 1)
    /\ tyText \in SeqsUpTo(Chars, MaxTypingLen)
    /\ tySuffix \in SeqsUpTo(Chars, MaxTypingLen)
    /\ tyResult = FALSE
    /\ tyDone = FALSE
    /\ ExIdle
    /\ FdIdle
    /\ PvIdle

ClassifyTyping ==
    /\ ~tyDone
    /\ tyDone' = TRUE
    /\ LET start == PositionAt(TypingDoc, Len(tyPrefix))
       IN  tyResult' = IsCharacterTyping(TypingDoc, start.line, start.character, tyText)
    /\ UNCHANGED <<tyPrefix, tyText, tySuffix>>
    /\ UNCHANGED <<exVars, fdVars, pvVars>>

TypingNext == ClassifyTyping

SpecTyping == TypingInit /\ [][TypingNext]_vars

\* The character of the document right after the caret, "" at the end
CharAfterCaret ==
    LET o == Len(tyPrefix) + Len(tyText)
    IN  IF o < Len(TypingDoc) THEN <<TypingDoc[o + 1]>> ELSE <<>>

HasLineBreak(t) == Contains(t, "\n") \/ Contains(t, "\r")

\* C1: isCharacterTyping is false for an empty insertion and for an insertion
\* containing a line break ("\n" or "\r", the line breaks of the text
\* document); otherwise it is true exactly when the last inserted character
\* is a word character and the character right after the caret is not ("o"
\* before "." gives true, "o" before "n" gives false).
C1_Typing ==
    tyDone =>
        /\ Len(tyText) = 0 => tyResult = FALSE
        /\ HasLineBreak(tyText) => tyResult = FALSE
        /\ (Len(tyText) > 0 /\ ~HasLineBreak(tyText)) =>
              (tyResult = (IsWordChar(tyText[Len(tyText)]) /\ ~TestWord(CharAfterCaret)))
        /\ (tyText = <<"o">> /\ CharAfterCaret = <<".">>) => tyResult = TRUE
        /\ (tyText = <<"o">> /\ CharAfterCaret = <<"n">>) => tyResult = FALSE

C1_Witness ==
    /\ tyDone /\ tyResult = TRUE
    /\ tyText = <<"o">> /\ tySuffix = <<".">>
    /\ Contains(tyPrefix, "\n")

----------------------------------------------------------------------------
\* Syntax trees (TypeScript ts.Node).  Every character of the text belongs to
\* a leaf token; "Hidden" leaves are punctuation/keyword tokens that
\* ts.forEachChild does not visit ("(", ",", "let", ...).  A leaf has leading
\* trivia tv and width w; a missing (error-recovery) node has tv = w = 0.
\* Positions: fs = getFullStart(), st = getStart(), en = getEnd().

Mk(k, nm, tv, w, kids) ==
    [k |-> k, nm |-> nm, tv |-> tv, w |-> w, kids |-> kids, rl |-> "",
     fs |-> 0, st |-> 0, en |-> 0]

Id(nm, tv) == Mk("Identifier", nm, tv, Len(nm), <<>>)
MissingId == Mk("Identifier", <<>>, 0, 0, <<>>)
Tok(w, tv) == Mk("Token", <<>>, tv, w, <<>>)
Hid(w, tv) == Mk("Hidden", <<>>, tv, w, <<>>)
Node(k, kids) == Mk(k, <<>>, 0, 0, kids)
\* A numeric or string literal token (visited by forEachChild)
Lit(k, w, tv) == Mk(k, <<>>, tv, w, <<>>)

\* The property through which the parent holds a child: node.name or one of
\* node.arguments
Nm(n) == [n EXCEPT !.rl = "name"]
Arg(n) == [n EXCEPT !.rl = "arg"]

RECURSIVE Place(_, _), PlaceKids(_, _)
\* Lay a tree out from offset p (the parser's pos/end bookkeeping)
Place(n, p) ==
    IF Len(n.kids) = 0
    THEN [n EXCEPT !.fs = p,
                   !.st = p + n.tv,     \* a missing node has no trivia
                   !.en = p + n.tv + n.w]
    ELSE LET ks == PlaceKids(n.kids, p)
             en == ks[Len(ks)].en
             \* getStart = skipTrivia(pos): the start of the first token with text
             firstText == {i \in 1..Len(ks) : ks[i].en > ks[i].fs}
         IN  [n EXCEPT !.kids = ks, !.fs = p, !.en = en,
                       !.st = IF en = p THEN p
                              ELSE ks[CHOOSE i \in firstText :
                                        \A j \in firstText : i <= j].st]

PlaceKids(ks, p) ==
    IF ks = <<>> THEN <<>>
    ELSE LET h == Place(Head(ks), p)
         IN  <<h>> \o PlaceKids(Tail(ks), h.en)

\* ts.forEachChild: the visited children, in order
Children(n) == SelectSeq(n.kids, LAMBDA c : c.k # "Hidden")

\* pos >= node.getFullStart() && pos <= node.getEnd()
InSpan(n, pos) == pos >= n.fs /\ pos <= n.en

RECURSIVE AllNodes(_)
AllNodes(n) == {n} \cup UNION {AllNodes(n.kids[i]) : i \in 1..Len(n.kids)}

----------------------------------------------------------------------------
\* Identifier names, as sequences of characters

Upper == {"A", "B", "C", "D", "E", "F", "G", "H", "I", "J", "K", "L", "M",
          "N", "O", "P", "Q", "R", "S", "T", "U", "V", "W", "X", "Y", "Z"}
LowerOf == [A |-> "a", B |-> "b", C |-> "c", D |-> "d", E |-> "e", F |-> "f",
            G |-> "g", H |-> "h", I |-> "i", J |-> "j", K |-> "k", L |-> "l",
            M |-> "m", N |-> "n", O |-> "o", P |-> "p", Q |-> "q", R |-> "r",
            S |-> "s", T |-> "t", U |-> "u", V |-> "v", W |-> "w", X |-> "x",
            Y |-> "y", Z |-> "z"]
Lower(c) == IF c \in Upper THEN LowerOf[c] ELSE c

RECURSIVE HyphFrom(_, _)
\* hyphenate (@vue/shared): str.replace(/\B([A-Z])/g, '-$1').toLowerCase()
HyphFrom(s, i) ==
    IF i > Len(s) THEN <<>>
    ELSE (IF i > 1 /\ s[i] \in Upper /\ IsWordChar(s[i - 1])
          THEN <<"-", Lower(s[i])>> ELSE <<Lower(s[i])>>) \o HyphFrom(s, i + 1)
Hyphenate(s) == HyphFrom(s, 1)

StartsWith(s, pre) == Len(s) >= Len(pre) /\ SubSeq(s, 1, Len(pre)) = pre

nx == <<"x">>
ny == <<"y">>
nz == <<"z">>
nf == <<"f">>
nd == <<"d">>
nT == <<"T">>
nwatch == <<"w", "a", "t", "c", "h">>
nunref == <<"u", "n", "r", "e", "f">>
ntriggerRef == <<"t", "r", "i", "g", "g", "e", "r", "R", "e", "f">>
nisRef == <<"i", "s", "R", "e", "f">>
nuseX == <<"u", "s", "e", "X">>
nUseX == <<"U", "s", "e", "X">>
nuse == <<"u", "s", "e">>
nuse_X == <<"u", "s", "e", "_", "X">>
nuseState == <<"u", "s", "e", "S", "t", "a", "t", "e">>
nfoo == <<"f", "o", "o">>
nvalue == <<"v", "a", "l", "u", "e">>
nconsole == <<"c", "o", "n", "s", "o", "l", "e">>
nlog == <<"l", "o", "g">>
nuseDash == <<"u", "s", "e", "-">>

\* isWatchOrUseFunction(fnName)
IsWatchOrUseFunction(fnName) ==
    \/ fnName = nwatch
    \/ fnName = nunref
    \/ fnName = ntriggerRef
    \/ fnName = nisRef
    \/ StartsWith(Hyphenate(fnName), nuseDash)


----------------------------------------------------------------------------
\* isBlacklistNode(ts, node, pos, allowAccessDotValue)

\* node.name of a VariableDeclaration, Parameter, PropertyAssignment or
\* PropertyAccessExpression: an identifier or a literal key, after any
\* decorators, modifiers and `...`
NameOf(n) ==
    LET cs == Children(n)
    IN  cs[CHOOSE i \in 1..Len(cs) : cs[i].rl = "name"]

\* node.expression and node.name of a PropertyAccessExpression
\* (a `?.` token may stand between them)
PAExpr(n) == Children(n)[1]
PAName(n) == NameOf(n)

\* node.arguments of a CallExpression (not node.expression, `?.` or
\* node.typeArguments)
CallArgs(n) == SelectSeq(Children(n), LAMBDA c : c.rl = "arg")

\* node.name of a FunctionDeclaration (undefined for an anonymous one)
HasFuncName(n) == \E i \in 1..Len(Children(n)) : Children(n)[i].rl = "name"
FuncName(n) == NameOf(n)

\* index of the first element of s whose span contains pos (0 if none)
FirstInSpan(s, pos) ==
    IF \E i \in 1..Len(s) : InSpan(s[i], pos)
    THEN CHOOSE i \in 1..Len(s) : InSpan(s[i], pos) /\
                                  \A j \in 1..(i - 1) : ~InSpan(s[j], pos)
    ELSE 0

\* Mutant: any array element containing pos matches, identifier or not
IsTopLevelArgOrArrayTopLevelItemItem_AnyElement(n, pos) ==
    LET args == CallArgs(n)
        i == FirstInSpan(args, pos)
    IN  IF i = 0 THEN FALSE
        ELSE LET arg == args[i]
                 j == FirstInSpan(Children(arg), pos)
             IN  IF arg.k = "Identifier" THEN TRUE
                 ELSE IF arg.k = "ArrayLiteralExpression" /\ j # 0 THEN TRUE
                 ELSE FALSE

\* isTopLevelArgOrArrayTopLevelItemItem(node): node.arguments are the
\* children after node.expression
IsTopLevelArgOrArrayTopLevelItemItem(n, pos) ==
    LET args == CallArgs(n)
        i == FirstInSpan(args, pos)
    IN  IF i = 0 THEN FALSE          \* falls off the loop: undefined
        ELSE LET arg == args[i]
                 els == Children(arg)
                 j == FirstInSpan(els, pos)
             IN  IF arg.k = "Identifier" THEN TRUE
                 ELSE IF arg.k = "ArrayLiteralExpression" /\ j # 0
                      THEN els[j].k = "Identifier"
                 ELSE FALSE

\* The call-expression branch of isBlacklistNode
RuleCall(n, pos) ==
    /\ n.k = "CallExpression"
    /\ Children(n)[1].k = "Identifier"
    /\ IsWatchOrUseFunction(Children(n)[1].nm)
    /\ IsTopLevelArgOrArrayTopLevelItemItem(n, pos)

\* Mutant: the property-access branch ignores allowAccessDotValue
RuleMatch_IgnoreAllow(n, pos, allow) ==
    \/ n.k = "VariableDeclaration" /\ InSpan(NameOf(n), pos)
    \/ n.k = "FunctionDeclaration" /\ HasFuncName(n) /\ InSpan(FuncName(n), pos)
    \/ n.k = "Parameter" /\ InSpan(NameOf(n), pos)
    \/ n.k = "PropertyAssignment" /\ InSpan(NameOf(n), pos)
    \/ n.k = "ShorthandPropertyAssignment"
    \/ n.k = "ImportDeclaration"
    \/ n.k = "LiteralType"
    \/ n.k = "TypeReference"
    \/ n.k = "PropertyAccessExpression"
              /\ PAExpr(n).en = pos /\ PAName(n).nm = nvalue
    \/ RuleCall(n, pos)

\* The if / else-if chain of isBlacklistNode (every matching branch returns true)
RuleMatch(n, pos, allow) ==
    \/ n.k = "VariableDeclaration" /\ InSpan(NameOf(n), pos)
    \/ n.k = "FunctionDeclaration" /\ HasFuncName(n) /\ InSpan(FuncName(n), pos)
    \/ n.k = "Parameter" /\ InSpan(NameOf(n), pos)
    \/ n.k = "PropertyAssignment" /\ InSpan(NameOf(n), pos)
    \/ n.k = "ShorthandPropertyAssignment"
    \/ n.k = "ImportDeclaration"
    \/ n.k = "LiteralType"
    \/ n.k = "TypeReference"
    \/ ~allow /\ n.k = "PropertyAccessExpression"
              /\ PAExpr(n).en = pos /\ PAName(n).nm = nvalue
    \/ RuleCall(n, pos)

RECURSIVE IsBlacklistNode(_, _, _), ScanBlacklist(_, _, _, _),
          ScanBlacklist_HalfOpen(_, _, _, _)
IsBlacklistNode(n, pos, allow) ==
    IF RuleMatch(n, pos, allow) THEN TRUE
    ELSE ScanBlacklist(Children(n), 1, pos, allow)

\* Mutant: a child counts only when pos < getEnd()
ScanBlacklist_HalfOpen(cs, i, pos, allow) ==
    IF i > Len(cs) THEN FALSE
    ELSE IF pos >= cs[i].fs /\ pos < cs[i].en /\ IsBlacklistNode(cs[i], pos, allow) THEN TRUE
    ELSE ScanBlacklist_HalfOpen(cs, i + 1, pos, allow)

\* node.forEachChild with the _isBlacklistNode flag
ScanBlacklist(cs, i, pos, allow) ==
    IF i > Len(cs) THEN FALSE
    ELSE IF InSpan(cs[i], pos) /\ IsBlacklistNode(cs[i], pos, allow) THEN TRUE
    ELSE ScanBlacklist(cs, i + 1, pos, allow)

----------------------------------------------------------------------------
\* Source files the parser produces for small programs.  t is the leading
\* trivia of a statement's first token.

ExprStmt(e) == Node("ExpressionStatement", <<e>>)
PA(e, name) == Node("PropertyAccessExpression", <<e, Hid(1, 0), Nm(name)>>)
CommaSep(args) ==
    IF Len(args) = 1 THEN args ELSE <<args[1], Hid(1, 0), args[2]>>
AsArgs(args) == [i \in 1..Len(args) |-> Arg(args[i])]
CallE(callee, args) ==
    Node("CallExpression", <<callee, Hid(1, 0)>> \o CommaSep(AsArgs(args)) \o <<Hid(1, 0)>>)
\* callee<T>(args)
CallT(callee, args) ==
    Node("CallExpression", <<callee, Hid(1, 0), Node("TypeReference", <<Id(nT, 0)>>),
                             Hid(1, 0), Hid(1, 0)>>
                           \o CommaSep(AsArgs(args)) \o <<Hid(1, 0)>>)
Arr(els) ==
    Node("ArrayLiteralExpression", <<Hid(1, 0)>> \o CommaSep(els) \o <<Hid(1, 0)>>)

ArgLists ==
    { <<Id(nx, 0)>>,
      <<Arr(<<Id(nx, 0)>>)>>,
      <<Arr(<<Id(ny, 0), Id(nx, 1)>>)>>,
      <<Arr(<<CallE(Id(nfoo, 0), <<Id(nx, 0)>>)>>)>>,
      <<CallE(Id(nfoo, 0), <<Id(nx, 0)>>)>>,
      <<PA(Id(nx, 0), Id(nvalue, 0))>>,
      <<Id(ny, 0), Id(nx, 1)>>,
      <<CallE(Id(nfoo, 0), <<Id(ny, 0)>>), Id(nx, 1)>>,
      <<Lit("NumericLiteral", 1, 0), Id(nx, 1)>> }

CalleeNames ==
    {nwatch, nunref, ntriggerRef, nisRef, nuseX, nUseX, nuseState, nuse, nuse_X, nfoo}

VarStmt(t, declKids) ==
    Node("VariableStatement",
         <<Node("VariableDeclarationList",
                <<Hid(3, t), Node("VariableDeclaration",
                                  [declKids EXCEPT ![1] = Nm(@)])>>)>>)

CallStmts(t) ==
    {ExprStmt(CallE(Id(c, t), a)) : c \in CalleeNames, a \in ArgLists}
    \cup {ExprStmt(CallE(PA(Id(nconsole, t), Id(nlog, 0)), <<Id(nx, 0)>>))}
    \cup {ExprStmt(CallT(Id(c, t), <<Id(nx, 0)>>)) : c \in {nwatch, nfoo}}

OtherStmts(t) ==
    { ExprStmt(Id(nx, t)),
      ExprStmt(PA(Id(nx, t), Id(nvalue, 0))),
      ExprStmt(PA(Id(nx, t), Id(nfoo, 0))),
      ExprStmt(Node("PropertyAccessExpression", <<Id(nx, t), Tok(2, 0), Nm(Id(nvalue, 0))>>)),
      VarStmt(t, <<Id(nx, 1)>>),
      VarStmt(t, <<Id(nx, 1), Hid(1, 1), Id(ny, 1)>>),
      VarStmt(t, <<Id(nx, 1), Hid(1, 0), Node("TypeReference", <<Id(nT, 1)>>)>>),
      VarStmt(t, <<Id(nx, 1), Hid(1, 0), Node("LiteralType", <<Tok(1, 1)>>)>>),
      VarStmt(t, <<Id(ny, 1), Hid(1, 1), PA(Id(nx, 1), Id(nvalue, 0))>>),
      Node("ImportDeclaration",
           <<Hid(6, t), Node("ImportClause", <<Id(nx, 1)>>), Hid(4, 1), Tok(3, 1)>>),
      ExprStmt(Node("ParenthesizedExpression",
           <<Hid(1, t), Node("ObjectLiteralExpression",
                <<Hid(1, 0), Node("ShorthandPropertyAssignment", <<Id(nx, 0)>>),
                  Hid(1, 0)>>), Hid(1, 0)>>)),
      ExprStmt(Node("ParenthesizedExpression",
           <<Hid(1, t), Node("ObjectLiteralExpression",
                <<Hid(1, 0), Node("PropertyAssignment", <<Nm(Id(nx, 0)), Hid(1, 0), Id(ny, 1)>>),
                  Hid(1, 0)>>), Hid(1, 0)>>)),
      ExprStmt(Node("ParenthesizedExpression",
           <<Hid(1, t), Node("ObjectLiteralExpression",
                <<Hid(1, 0), Node("PropertyAssignment",
                                  <<Nm(Lit("NumericLiteral", 1, 0)), Hid(1, 0), Id(ny, 1)>>),
                  Hid(1, 0)>>), Hid(1, 0)>>)),
      ExprStmt(Node("ParenthesizedExpression",
           <<Hid(1, t), Node("ObjectLiteralExpression",
                <<Hid(1, 0), Node("PropertyAssignment",
                                  <<Nm(Lit("StringLiteral", 3, 0)), Hid(1, 0), Id(ny, 1)>>),
                  Hid(1, 0)>>), Hid(1, 0)>>)),
      Node("FunctionDeclaration",
           <<Hid(8, t), Nm(Id(nf, 1)), Hid(1, 0), Node("Parameter", <<Nm(Id(nx, 0))>>),
             Hid(1, 0), Node("Block", <<Hid(2, 1)>>)>>),
      Node("FunctionDeclaration",
           <<Hid(8, t), Nm(Id(nf, 1)), Hid(1, 0), Node("Parameter", <<Tok(3, 0), Nm(Id(nx, 0))>>),
             Hid(1, 0), Node("Block", <<Hid(2, 1)>>)>>),
      Node("FunctionDeclaration",
           <<Hid(8, t), Nm(Id(nf, 1)), Hid(1, 0),
             Node("Parameter", <<Node("Decorator", <<Hid(1, 0), Id(nd, 0)>>), Nm(Id(nx, 1))>>),
             Hid(1, 0), Node("Block", <<Hid(2, 1)>>)>>) }

\* Statements that follow a first statement on the next line
SecondStmts ==
    { ExprStmt(Id(nx, 1)),
      VarStmt(1, <<Id(nx, 1)>>),
      ExprStmt(CallE(Id(nwatch, 1), <<Id(nx, 0)>>)),
      Node("ImportDeclaration",
           <<Hid(6, 1), Node("ImportClause", <<Id(nx, 1)>>), Hid(4, 1), Tok(3, 1)>>) }

SourceFile(stmts) == Place(Node("SourceFile", stmts \o <<Tok(0, 0)>>), 0)

ExTrees ==
    {SourceFile(<<s>>) : s \in CallStmts(0) \cup OtherStmts(0)}
    \cup {SourceFile(<<s1, s2>>) : s1 \in OtherStmts(0), s2 \in SecondStmts}
    \cup {SourceFile(<<s1, s2>>) : s1 \in CallStmts(0) \cap
            {ExprStmt(CallE(Id(c, 0), <<Id(nx, 0)>>)) : c \in {nwatch, nfoo}},
          s2 \in SecondStmts}

ExInit ==
    /\ exTree \in ExTrees
    /\ exPos \in 0..exTree.en
    /\ exAllow \in BOOLEAN
    /\ exResult = FALSE
    /\ exDone = FALSE
    /\ TyIdle
    /\ FdIdle
    /\ PvIdle

\* isBlacklistNode(ts, sourceFile, pos, allowAccessDotValue)
ClassifyExclusion ==
    /\ ~exDone
    /\ exDone' = TRUE
    /\ exResult' = IsBlacklistNode(exTree, exPos, exAllow)
    /\ UNCHANGED <<exTree, exPos, exAllow>>
    /\ UNCHANGED <<tyVars, fdVars, pvVars>>

ExNext == ClassifyExclusion

SpecExclusion == ExInit /\ [][ExNext]_vars


----------------------------------------------------------------------------
\* Exclusion claims

SeqElems(s) == {s[i] : i \in 1..Len(s)}

\* The root-to-pos path of the spec: from each node into the first child
\* whose span [getFullStart(), getEnd()] contains pos
RECURSIVE SpecPathNodes(_, _)
SpecPathNodes(n, pos) ==
    LET i == FirstInSpan(Children(n), pos)
    IN  {n} \cup (IF i = 0 THEN {} ELSE SpecPathNodes(Children(n)[i], pos))

\* Every node reached from the root through a chain of children whose
\* span contains pos (the union of all root-to-pos containment paths)
RECURSIVE ContainmentNodes(_, _)
ContainmentNodes(n, pos) ==
    {n} \cup UNION {ContainmentNodes(c, pos) :
                      c \in {c2 \in SeqElems(Children(n)) : InSpan(c2, pos)}}

\* Rule 10 as the claim states it
ClaimWatchName(nm) ==
    nm \in {nwatch, nunref, ntriggerRef, nisRef} \/ StartsWith(Hyphenate(nm), nuseDash)

RuleTenClaim(n, pos) ==
    /\ n.k = "CallExpression"
    /\ Children(n)[1].k = "Identifier"
    /\ ClaimWatchName(Children(n)[1].nm)
    /\ \E arg \in {c \in SeqElems(Children(n)) : c.rl = "arg"} :
          /\ InSpan(arg, pos)
          /\ \/ arg.k = "Identifier"
             \/ arg.k = "ArrayLiteralExpression" /\
                \E el \in SeqElems(Children(arg)) : InSpan(el, pos) /\ el.k = "Identifier"

\* The source file of a single call statement callee(args)
IsCallFile(t, callee, args) ==
    t = SourceFile(<<ExprStmt(CallE(Id(callee, 0), args))>>)

\* C5: in a call whose callee is watch, unref, triggerRef, isRef or a name
\* whose hyphenated form starts with "use-", pos is excluded when it lies in
\* a top-level identifier argument or in an identifier element of a
\* top-level array-literal argument; the code's rule 10 matches exactly
\* then.  watch(x) and watch([x]) are excluded at the end of x,
\* watch(foo(x)) is not.
C5_WatchRule ==
    exDone =>
        /\ (\E n \in ContainmentNodes(exTree, exPos) : RuleTenClaim(n, exPos)) => exResult
        /\ \A n \in ContainmentNodes(exTree, exPos) :
              RuleCall(n, exPos) <=> RuleTenClaim(n, exPos)
        /\ (IsCallFile(exTree, nwatch, <<Id(nx, 0)>>) /\ exPos = 7) => exResult
        /\ (IsCallFile(exTree, nwatch, <<Arr(<<Id(nx, 0)>>)>>) /\ exPos = 8) => exResult
        /\ (IsCallFile(exTree, nwatch, <<CallE(Id(nfoo, 0), <<Id(nx, 0)>>)>>)
              /\ exPos = 11) => ~exResult

C5_Witness ==
    /\ exDone /\ exResult
    /\ IsCallFile(exTree, nwatch, <<Arr(<<Id(ny, 0), Id(nx, 1)>>)>>)
    /\ exPos = 11


\* The rule table as the claim lists it; "name span" is the span of the
\* child the node holds as its name (an identifier or a literal key)
ClaimRule(n, pos, allow) ==
    \/ n.k \in {"VariableDeclaration", "FunctionDeclaration", "Parameter",
                "PropertyAssignment"}
          /\ \E c \in SeqElems(Children(n)) :
                c.rl = "name" /\ pos >= c.fs /\ pos <= c.en
    \/ n.k \in {"ShorthandPropertyAssignment", "ImportDeclaration",
                "LiteralType", "TypeReference"}
    \/ /\ ~allow
       /\ n.k = "PropertyAccessExpression"
       /\ \E c \in SeqElems(Children(n)) : c.rl = "name" /\ c.nm = nvalue
       /\ pos = Children(n)[1].en
    \/ RuleTenClaim(n, pos)

LetXFile == SourceFile(<<VarStmt(0, <<Id(nx, 1)>>)>>)
ConsoleLogFile ==
    SourceFile(<<ExprStmt(CallE(PA(Id(nconsole, 0), Id(nlog, 0)), <<Id(nx, 0)>>))>>)

\* C6 (as stated): isExcluded(root, pos) is true exactly when some node on
\* the root-to-pos path (into the single child whose span contains pos, as
\* the spec's rule table describes it) matches a rule of the table; "let x"
\* at the end of x is excluded, x in console.log(x) is not.
C6_RuleTable ==
    exDone =>
        /\ exResult <=> \E n \in SpecPathNodes(exTree, exPos) : ClaimRule(n, exPos, exAllow)
        /\ (exTree = LetXFile /\ exPos = 5) => exResult
        /\ (exTree = ConsoleLogFile /\ exPos = 13) => ~exResult

\* C6 (amended): isExcluded(root, pos) is true exactly when some node on
\* some root-to-pos containment path matches a rule of the table; where a
\* child ends at pos and its next sibling starts there, both paths count.
\* "let x" at the end of x is excluded, x in console.log(x) is not.
C6_Amended ==
    exDone =>
        /\ exResult <=> \E n \in ContainmentNodes(exTree, exPos) : ClaimRule(n, exPos, exAllow)
        /\ (exTree = LetXFile /\ exPos = 5) => exResult
        /\ (exTree = ConsoleLogFile /\ exPos = 13) => ~exResult

\* ({1: y}) with pos in the literal key
C6_Witness ==
    /\ exDone /\ exResult
    /\ exTree = SourceFile(<<ExprStmt(Node("ParenthesizedExpression",
           <<Hid(1, 0), Node("ObjectLiteralExpression",
                <<Hid(1, 0), Node("PropertyAssignment",
                                  <<Nm(Lit("NumericLiteral", 1, 0)), Hid(1, 0), Id(ny, 1)>>),
                  Hid(1, 0)>>), Hid(1, 0)>>))>>)
    /\ exPos = 2

RECURSIVE SingleChildExcluded(_, _, _)
\* The spec's recursion: into the first child whose span contains pos only
SingleChildExcluded(n, pos, allow) ==
    IF RuleMatch(n, pos, allow) THEN TRUE
    ELSE LET i == FirstInSpan(Children(n), pos)
         IN  IF i = 0 THEN FALSE ELSE SingleChildExcluded(Children(n)[i], pos, allow)

\* C8 (as stated): at most one child contains pos at each level, so the
\* code's result equals the single-child recursion for every tree and pos.
C8_SingleChild ==
    exDone => exResult = SingleChildExcluded(exTree, exPos, exAllow)

\* C8 (amended): a child ending at pos and its next sibling starting at pos
\* both contain pos; the code checks every containing child, so whenever the
\* single-child recursion excludes pos the code does too.
C8_Amended ==
    exDone => (SingleChildExcluded(exTree, exPos, exAllow) => exResult)

C8_Witness ==
    /\ exDone /\ exResult
    /\ SingleChildExcluded(exTree, exPos, exAllow)
    /\ \E n \in ContainmentNodes(exTree, exPos) :
          Cardinality({i \in 1..Len(Children(n)) : InSpan(Children(n)[i], exPos)}) > 1


----------------------------------------------------------------------------
\* findPositionIdentifier(sourceFile, node, offset)

NoNode == Mk("None", <<>>, 0, 0, <<>>)

RECURSIVE FindPositionIdentifier(_, _), ScanFind(_, _, _),
          ScanFind_AnyKind(_, _, _), ScanFind_StrictEnd(_, _, _)

\* Mutant: the isIdentifier test left out
ScanFind_AnyKind(cs, i, offset) ==
    IF i > Len(cs) THEN NoNode
    ELSE LET c == cs[i]
         IN  IF c.en = offset THEN c
             ELSE IF c.en >= offset /\ c.st < offset
                  THEN LET r == FindPositionIdentifier(c, offset)
                       IN  IF r # NoNode THEN r ELSE ScanFind(cs, i + 1, offset)
             ELSE ScanFind(cs, i + 1, offset)

\* Mutant: recursion only into children that end after offset
ScanFind_StrictEnd(cs, i, offset) ==
    IF i > Len(cs) THEN NoNode
    ELSE LET c == cs[i]
         IN  IF c.en = offset /\ c.k = "Identifier" THEN c
             ELSE IF c.en > offset /\ c.st < offset
                  THEN LET r == FindPositionIdentifier(c, offset)
                       IN  IF r # NoNode THEN r ELSE ScanFind(cs, i + 1, offset)
             ELSE ScanFind(cs, i + 1, offset)

FindPositionIdentifier(n, offset) == ScanFind(Children(n), 1, offset)

\* node.forEachChild with `if (!result)`: a child is skipped once result is set
ScanFind(cs, i, offset) ==
    IF i > Len(cs) THEN NoNode
    ELSE LET c == cs[i]
         IN  IF c.en = offset /\ c.k = "Identifier" THEN c
             ELSE IF c.en >= offset /\ c.st < offset
                  THEN LET r == FindPositionIdentifier(c, offset)
                       IN  IF r # NoNode THEN r ELSE ScanFind(cs, i + 1, offset)
             ELSE ScanFind(cs, i + 1, offset)

\* Error-recovery statements at the end of a file: conditional expressions
\* without their whenFalse branch, `new` and `=` without an operand (the
\* parser puts a missing identifier there; on a following line it would
\* parse the next line as the operand instead)
RecoveryStmts ==
    { ExprStmt(Node("ConditionalExpression",
          <<Id(nx, 0), Tok(1, 1), PA(Id(ny, 1), Id(nz, 0)), Tok(0, 0), MissingId>>)),
      ExprStmt(Node("ConditionalExpression",
          <<Id(nx, 0), Tok(1, 1), Id(ny, 1), Tok(1, 1), MissingId>>)),
      VarStmt(0, <<Id(nx, 1), Hid(1, 1), Node("NewExpression", <<Hid(3, 1), MissingId>>)>>),
      VarStmt(0, <<Id(nx, 1), Hid(1, 1), MissingId>>) }

FindTrees ==
    {SourceFile(<<s>>) : s \in OtherStmts(0) \cup RecoveryStmts}
    \cup {SourceFile(<<ExprStmt(CallE(Id(c, 0), a))>>) : c \in {nwatch}, a \in ArgLists}
    \cup {SourceFile(<<s1, s2>>) : s1 \in OtherStmts(0), s2 \in SecondStmts}

FindInit ==
    /\ fdTree \in FindTrees
    /\ fdOff \in 0..fdTree.en
    /\ fdResult = NoNode
    /\ fdDone = FALSE
    /\ TyIdle
    /\ ExIdle
    /\ PvIdle

\* findPositionIdentifier(sourceFile, sourceFile, document.offsetAt(position))
LocateIdentifier ==
    /\ ~fdDone
    /\ fdDone' = TRUE
    /\ fdResult' = FindPositionIdentifier(fdTree, fdOff)
    /\ UNCHANGED <<fdTree, fdOff>>
    /\ UNCHANGED <<tyVars, exVars, pvVars>>

FindNext == LocateIdentifier

SpecFind == FindInit /\ [][FindNext]_vars

\* C7: findIdentifierAt returns none or an identifier ending exactly at
\* offset, and none when no identifier ends at offset.
C7_FindResult ==
    fdDone =>
        /\ fdResult = NoNode \/ (fdResult.k = "Identifier" /\ fdResult.en = fdOff)
        /\ (~\E n \in AllNodes(fdTree) : n.k = "Identifier" /\ n.en = fdOff)
              => fdResult = NoNode

C7_Witness ==
    /\ fdDone /\ fdResult # NoNode
    /\ fdTree = SourceFile(<<ExprStmt(CallE(Id(nwatch, 0), <<Arr(<<Id(ny, 0), Id(nx, 1)>>)>>))>>)
    /\ fdOff = 11

RECURSIVE SpecFindIdentifierAt(_, _), SpecScanFind(_, _, _)
\* The spec's NodeLocator: in child order, return an identifier child ending
\* at offset, or recurse into the first child with end >= offset and
\* fullStart < offset and return what that finds
SpecFindIdentifierAt(n, offset) == SpecScanFind(Children(n), 1, offset)
SpecScanFind(cs, i, offset) ==
    IF i > Len(cs) THEN NoNode
    ELSE LET c == cs[i]
         IN  IF c.en = offset /\ c.k = "Identifier" THEN c
             ELSE IF c.en >= offset /\ c.fs < offset
                  THEN SpecFindIdentifierAt(c, offset)
             ELSE SpecScanFind(cs, i + 1, offset)

\* C9 (as stated): findIdentifierAt equals the spec's algorithm for every
\* tree and offset.
C9_SameAsSpec ==
    fdDone => fdResult = SpecFindIdentifierAt(fdTree, fdOff)

NoZeroWidthIdentifier(t) ==
    \A n \in AllNodes(t) : n.k = "Identifier" => n.en > n.fs

\* C9 (amended): the two agree on every tree without zero-width (missing)
\* identifier nodes; with them the code may find an identifier after a
\* fruitless recursion where the spec's algorithm stops.
C9_Amended ==
    (fdDone /\ NoZeroWidthIdentifier(fdTree)) =>
        fdResult = SpecFindIdentifierAt(fdTree, fdOff)

C9_Witness ==
    /\ fdDone /\ NoZeroWidthIdentifier(fdTree)
    /\ \E n \in AllNodes(fdTree) : n.fs < fdOff /\ fdOff <= n.st /\ fdOff <= n.en


----------------------------------------------------------------------------
\* provideAutoInsertionEdit(document, position, insertContext)
\*
\* The handler runs synchronously up to `await getConfiguration(...)`, then
\* synchronously to the end, with one long call (getQuickInfoAtPosition)
\* before the cancellation check.  The cancellation token is external and
\* monotonic: the host may set it at any moment.

Snippet == "${1:.value}"

\* Documents with the source file the parser produces for them
DocX == <<"x">>
DocLetX == <<"l", "e", "t", " ", "x">>
DocWatchX == <<"w", "a", "t", "c", "h", "(", "x", ")">>
SampleDocs ==
    { [doc |-> DocX, tree |-> SourceFile(<<ExprStmt(Id(nx, 0))>>)],
      [doc |-> DocLetX, tree |-> SourceFile(<<VarStmt(0, <<Id(nx, 1)>>)>>)],
      [doc |-> DocWatchX,
       tree |-> SourceFile(<<ExprStmt(CallE(Id(nwatch, 0), <<Id(nx, 0)>>))>>)] }

\* The last change the host reports for a document: the character at k
\* typed at offset k, or a deletion at offset k
SampleEdits(doc) ==
    { [prefix |-> SubSeq(doc, 1, k), text |-> <<doc[k + 1]>>,
       suffix |-> SubSeq(doc, k + 2, Len(doc))] : k \in 0..(Len(doc) - 1) }
    \cup { [prefix |-> SubSeq(doc, 1, k), text |-> <<>>,
            suffix |-> SubSeq(doc, k + 1, Len(doc))] : k \in {0, Len(doc)} }

\* isCharacterTyping(document, insertContext)
EditIsTyping(e) ==
    LET doc == e.prefix \o e.text \o e.suffix
        start == PositionAt(doc, Len(e.prefix))
    IN  IsCharacterTyping(doc, start.line, start.character, e.text)

\* document.offsetAt(Position.create(rangeStart.line,
\* rangeStart.character + text.length)): a column on the start line,
\* clamped to the end of that line when the text spans lines
EditEnd(e) ==
    LET doc == e.prefix \o e.text \o e.suffix
        start == PositionAt(doc, Len(e.prefix))
    IN  OffsetAt(doc, start.line, start.character + Len(e.text))

\* Mutant: the toggle is not consulted
ConfigEnabled_Ignored(cfg) == TRUE

\* Mutant: no default when the configuration is unset
ConfigEnabled_NoDefault(cfg) == cfg = "true"

\* `await context.configurationHost?.getConfiguration<boolean>(...) ?? true`;
\* "unset" is undefined (no configuration host or no value)
ConfigEnabled(cfg) == IF cfg = "unset" THEN TRUE ELSE cfg = "true"

\* The per-invocation state at the call of provideAutoInsertionEdit
CallStart ==
    /\ pc = "start" /\ cancelled = FALSE /\ result = "none"
    /\ checks = 0 /\ cancelSeen = FALSE /\ editChecked = FALSE
    /\ analysisRan = FALSE /\ quickInfoRan = FALSE /\ typeQueried = FALSE

ProvideInit ==
    /\ pIsTs \in BOOLEAN
    /\ \E d \in SampleDocs :
          /\ pTree = d.tree
          /\ pEdit \in SampleEdits(d.doc)
          /\ pOff \in 0..Len(d.doc)
    /\ pConfig \in {"true", "false", "unset"}
    /\ pProgram \in BOOLEAN
    /\ pSourceFile \in BOOLEAN
    /\ pToken \in BOOLEAN
    /\ pHasValue \in BOOLEAN
    /\ CallStart
    /\ runs = <<>>
    /\ TyIdle /\ ExIdle /\ FdIdle

\* Lines 18-24: document kind and edit gates, then the configuration request
Start ==
    /\ pc = "start"
    /\ editChecked' = pIsTs
    /\ IF pIsTs /\ EditIsTyping(pEdit) THEN pc' = "await" ELSE pc' = "done"
    /\ UNCHANGED <<inputVars, cancelled, result, checks, cancelSeen,
                   analysisRan, quickInfoRan, typeQueried, runs>>
    /\ UNCHANGED <<tyVars, exVars, fdVars>>

\* An early `return` (undefined) after the configuration arrived
ResumeStop ==
    /\ pc' = "done"
    /\ UNCHANGED <<quickInfoRan, typeQueried, result, checks, cancelSeen>>

\* Lines 43-57 once an identifier was found: with a cancellation token the
\* quick-info request is issued, else the type is queried at once
ResumeQuery ==
    IF pToken
    THEN /\ quickInfoRan' = TRUE
         /\ pc' = "check"
         /\ UNCHANGED <<typeQueried, result, checks, cancelSeen>>
    ELSE /\ typeQueried' = TRUE
         /\ result' = IF pHasValue THEN Snippet ELSE "none"
         /\ pc' = "done"
         /\ UNCHANGED <<quickInfoRan, checks, cancelSeen>>

\* Mutant: the blacklist gate left out
Resume_NoBlacklist ==
    /\ pc = "await"
    /\ IF ~ConfigEnabled(pConfig)
       THEN /\ pc' = "done"
            /\ UNCHANGED <<analysisRan, quickInfoRan, typeQueried, result, checks, cancelSeen>>
       ELSE /\ analysisRan' = TRUE
            /\ IF ~pProgram \/ ~pSourceFile THEN ResumeStop
               ELSE IF FindPositionIdentifier(pTree, pOff) = NoNode THEN ResumeStop
               ELSE ResumeQuery
    /\ UNCHANGED <<inputVars, cancelled, editChecked, runs>>
    /\ UNCHANGED <<tyVars, exVars, fdVars>>

\* Lines 24-41 after the configuration arrives: enabled, program, source
\* file, blacklist and identifier gates, in this order
Resume ==
    /\ pc = "await"
    /\ IF ~ConfigEnabled(pConfig)
       THEN /\ pc' = "done"
            /\ UNCHANGED <<analysisRan, quickInfoRan, typeQueried, result, checks, cancelSeen>>
       ELSE /\ analysisRan' = TRUE
            /\ IF ~pProgram \/ ~pSourceFile THEN ResumeStop
               ELSE IF IsBlacklistNode(pTree, pOff, FALSE) THEN ResumeStop
               ELSE IF FindPositionIdentifier(pTree, pOff) = NoNode THEN ResumeStop
               ELSE ResumeQuery
    /\ UNCHANGED <<inputVars, cancelled, editChecked, runs>>
    /\ UNCHANGED <<tyVars, exVars, fdVars>>

\* Mutant: the early return on cancellation left out
CheckCancel_NoReturn ==
    /\ pc = "check"
    /\ checks' = checks + 1
    /\ cancelSeen' = cancelled
    /\ typeQueried' = TRUE
    /\ result' = IF pHasValue THEN Snippet ELSE "none"
    /\ pc' = "done"
    /\ UNCHANGED <<inputVars, cancelled, editChecked, analysisRan, quickInfoRan, runs>>
    /\ UNCHANGED <<tyVars, exVars, fdVars>>

\* Lines 46-57: token.isCancellationRequested(), then the type query
CheckCancel ==
    /\ pc = "check"
    /\ checks' = checks + 1
    /\ cancelSeen' = cancelled
    /\ IF cancelled
       THEN /\ UNCHANGED <<typeQueried, result>>
       ELSE /\ typeQueried' = TRUE
            /\ result' = IF pHasValue THEN Snippet ELSE "none"
    /\ pc' = "done"
    /\ UNCHANGED <<inputVars, cancelled, editChecked, analysisRan, quickInfoRan, runs>>
    /\ UNCHANGED <<tyVars, exVars, fdVars>>

\* The host requests cancellation of the in-flight request
Cancel ==
    /\ pc # "done"
    /\ ~cancelled
    /\ cancelled' = TRUE
    /\ UNCHANGED <<inputVars, pc, result, checks, cancelSeen, editChecked,
                   analysisRan, quickInfoRan, typeQueried, runs>>
    /\ UNCHANGED <<tyVars, exVars, fdVars>>

\* The host calls provideAutoInsertionEdit again with the same document,
\* position, edit, program and type facts; the plugin closure keeps nothing
\* of the previous call (runs records each finished call's outcome)
Reinvoke ==
    /\ pc = "done"
    /\ Len(runs) < MaxInvocations - 1
    /\ runs' = Append(runs, [seen |-> cancelSeen, res |-> result])
    /\ pc' = "start" /\ cancelled' = FALSE /\ result' = "none"
    /\ checks' = 0 /\ cancelSeen' = FALSE /\ editChecked' = FALSE
    /\ analysisRan' = FALSE /\ quickInfoRan' = FALSE /\ typeQueried' = FALSE
    /\ UNCHANGED inputVars
    /\ UNCHANGED <<tyVars, exVars, fdVars>>

ProvideNext == Start \/ Resume \/ CheckCancel \/ Cancel \/ Reinvoke

SpecProvide == ProvideInit /\ [][ProvideNext]_vars


----------------------------------------------------------------------------
\* Pipeline claims

\* The feature toggle is on unless it is set to false
ClaimEnabled(cfg) == cfg # "false"

AllGatesPass ==
    /\ EditIsTyping(pEdit)
    /\ ClaimEnabled(pConfig)
    /\ pProgram /\ pSourceFile
    /\ ~IsBlacklistNode(pTree, pOff, FALSE)
    /\ FindPositionIdentifier(pTree, pOff) # NoNode
    /\ ~cancelSeen
    /\ pHasValue

\* C2 (as stated): the handler suggests "${1:.value}" only when every gate
\* passes (typing edit, feature enabled, program and source file, position
\* not excluded, identifier ending at the offset, no cancellation observed,
\* type with a `value` property), and then at the edit's end position;
\* it always does so then for a script document, and otherwise answers
\* none, never anything else.
C2_Gates ==
    pc = "done" =>
        /\ result \in {"none", Snippet}
        /\ result = Snippet => (AllGatesPass /\ pOff = EditEnd(pEdit))
        /\ (pIsTs /\ AllGatesPass) => result = Snippet

\* C2 (amended): as stated, except that the snippet belongs to the request
\* position: the identifier ends at offsetAt(position), which the code
\* never relates to the edit, so it is the edit's end only when the host
\* passes that position.
C2_Amended ==
    pc = "done" =>
        /\ result \in {"none", Snippet}
        /\ result = Snippet =>
              (AllGatesPass /\ FindPositionIdentifier(pTree, pOff).en = pOff)
        /\ (pIsTs /\ AllGatesPass) => result = Snippet

C2_Witness ==
    /\ pc = "done" /\ result = Snippet /\ pToken /\ pConfig = "unset"
    /\ pOff = EditEnd(pEdit)

\* C3 (as stated): the cancellation signal is checked exactly once before
\* the type query; if it is set then, the answer is none and no type query
\* is made.
C3_CheckOnce ==
    (pc = "done" /\ (typeQueried \/ cancelSeen)) =>
        /\ checks = 1
        /\ cancelSeen => (result = "none" /\ ~typeQueried)

\* C3 (amended): with a cancellation token the signal is checked exactly
\* once, after the quick-info request and right before the type query; if
\* it is set then the answer is none and no type query is made, even when
\* the type has `value`.  Without a token nothing is checked.
C3_Amended ==
    pc = "done" =>
        /\ checks <= 1
        /\ typeQueried => (checks = (IF pToken THEN 1 ELSE 0) /\ ~cancelSeen)
        /\ (pToken /\ typeQueried) => quickInfoRan
        /\ cancelSeen => (result = "none" /\ ~typeQueried /\ checks = 1)

C3_Witness ==
    /\ pc = "done" /\ cancelSeen /\ pHasValue /\ result = "none"

\* C4 (as stated): with the toggle disabled the answer is none and no
\* analysis runs at all: not the edit classification, nor the program,
\* exclusion, identifier or type analysis.
C4_Disabled ==
    (pc = "done" /\ pConfig = "false") =>
        /\ result = "none"
        /\ ~editChecked /\ ~analysisRan /\ ~quickInfoRan /\ ~typeQueried

\* C4 (amended): with the toggle disabled the answer is none and none of
\* the program, exclusion, identifier or type analysis runs; the document
\* kind test and the edit classification run before the toggle is read.
C4_Amended ==
    (pc = "done" /\ pConfig = "false") =>
        /\ result = "none"
        /\ ~analysisRan /\ ~quickInfoRan /\ ~typeQueried

C4_Witness ==
    /\ pc = "done" /\ pConfig = "false" /\ pIsTs /\ editChecked /\ EditIsTyping(pEdit)
    /\ pProgram /\ pSourceFile /\ pHasValue
    /\ FindPositionIdentifier(pTree, pOff) # NoNode

\* The spec's gate order: LocateGate before ExclusionGate
ResumeSpecOrder ==
    /\ pc = "await"
    /\ IF ~ConfigEnabled(pConfig)
       THEN /\ pc' = "done"
            /\ UNCHANGED <<analysisRan, quickInfoRan, typeQueried, result, checks, cancelSeen>>
       ELSE /\ analysisRan' = TRUE
            /\ IF ~pProgram \/ ~pSourceFile THEN ResumeStop
               ELSE IF FindPositionIdentifier(pTree, pOff) = NoNode THEN ResumeStop
               ELSE IF IsBlacklistNode(pTree, pOff, FALSE) THEN ResumeStop
               ELSE ResumeQuery
    /\ UNCHANGED <<inputVars, cancelled, editChecked, runs>>
    /\ UNCHANGED <<tyVars, exVars, fdVars>>

\* Every earlier call with the same inputs and the same cancellation
\* observation ended with the same answer
SameAnswerAsEarlierRuns ==
    pc = "done" =>
        \A i \in 1..Len(runs) : runs[i].seen = cancelSeen => runs[i].res = result

====
